---- MODULE Spec2Model ----
(***************************************************************************)
(* UHPC property-prediction engine.                                        *)
(*                                                                         *)
(*   src/UHPC_Presentation_Demo.py     predict_concrete_properties_cached  *)
(*                                     (binder-factor model, memoized by   *)
(*                                     st.cache_data)                      *)
(*   src/streamlit_to_html_converter.py                                    *)
(*                                     UHPCToHTMLConverter                 *)
(*                                     .predict_concrete_properties        *)
(*                                     (linear-coefficient model)          *)
(*                                                                         *)
(* Floating-point quantities are fixed-point integers: a real x is the     *)
(* integer floor(x * SCALE), SCALE = 10^4.  Logarithms and exponentials    *)
(* are evaluated at FINE = 10^6 and cut back to SCALE.  TLC integers are   *)
(* 32 bits wide, so every product is split to stay below 2^31.             *)
(***************************************************************************)
EXTENDS Integers, Sequences, FiniteSets, TLC

SCALE == 10 * 1000
FINE == 1000 * 1000
KILO == 10 * 100

(***************************************************************************)
(* Fixed-point arithmetic                                                  *)
(***************************************************************************)

\* a * b for fixed-point a, b >= 0 at SCALE: floor(a * b / SCALE), exactly.
Mul(a, b) ==
    (a \div SCALE) * b + ((a % SCALE) * b) \div SCALE

\* a * b for a, b >= 0 at FINE: floor(a * b / FINE), exactly.
MulFine(a, b) ==
    (a * (b \div KILO) + (a * (b % KILO)) \div KILO) \div KILO

\* n / d for integers n >= 0, d > 0, as a fixed-point quotient at SCALE.
Quot(n, d) ==
    (n \div d) * SCALE + ((n % d) * SCALE) \div d

RECURSIVE Pow2(_)
Pow2(k) == IF k = 0 THEN 1 ELSE 2 * Pow2(k - 1)

\* floor(log2(n)) for an integer n >= 1.
RECURSIVE Log2Floor(_)
Log2Floor(n) == IF n < 2 THEN 0 ELSE 1 + Log2Floor(n \div 2)

\* 2 * atanh(z) = 2 * (z + z^3/3 + z^5/5 + ...) at FINE, for 0 <= z <= 1/3;
\* p is the current odd power of z, k its exponent.
RECURSIVE AtanhSeries(_, _, _)
AtanhSeries(p, zz, k) ==
    IF p = 0 \/ k > 25 THEN 0
    ELSE p \div k + AtanhSeries(MulFine(p, zz), zz, k + 2)

\* ln(2) = 2 * atanh(1/3) at FINE.
LN2 == 2 * AtanhSeries(FINE \div 3, FINE \div 9, 1)

\* ln(n) at FINE for an integer n >= 1:
\* n = m * 2^e with 1 <= m < 2, ln(n) = e * ln(2) + 2 * atanh((m-1)/(m+1)).
LnFine(n) ==
    LET e == Log2Floor(n)
        d == Pow2(e)
        z == ((n - d) * FINE) \div (n + d)
    IN  e * LN2 + 2 * AtanhSeries(z, MulFine(z, z), 1)

\* exp(r) at FINE for 0 <= r < ln(2) at FINE: 1 + r + r^2/2! + ...;
\* t is the current term, k the index of the next one.
RECURSIVE ExpSeries(_, _, _)
ExpSeries(t, r, k) ==
    IF t = 0 \/ k > 20 THEN 0
    ELSE t + ExpSeries(MulFine(t, r) \div k, r, k + 1)

\* exp(x) at FINE for x at FINE (any sign): x = e * ln(2) + r, 0 <= r < ln(2).
ExpFine(x) ==
    LET e == x \div LN2
        r == x - e * LN2
        m == ExpSeries(FINE, r, 1)
    IN  IF e >= 0 THEN m * Pow2(e) ELSE m \div Pow2(-e)

\* floor(sqrt(n)) for an integer n >= 0, by bisection on lo <= sqrt(n) < hi.
RECURSIVE ISqrtBetween(_, _, _)
ISqrtBetween(n, lo, hi) ==
    IF hi - lo <= 1 THEN lo
    ELSE LET mid == (lo + hi) \div 2
         IN  IF mid * mid <= n THEN ISqrtBetween(n, mid, hi)
                               ELSE ISqrtBetween(n, lo, mid)

ISqrt(n) == ISqrtBetween(n, 0, 46340)

\* np.log(n) for an integer n >= 1, at SCALE.
Log(n) == LnFine(n) \div (FINE \div SCALE)

\* Pow07 without the exponent: n / d.
Pow07Linear(n, d) == Quot(n, d)

\* (n / d) ** 0.7 at SCALE for integers n >= 0, d > 0:
\* exp(0.7 * (ln n - ln d)); 0 ** 0.7 = 0.
Pow07(n, d) ==
    IF n = 0 THEN 0
    ELSE ExpFine((7 * (LnFine(n) - LnFine(d))) \div 10) \div (FINE \div SCALE)

\* np.sqrt(x) at SCALE for x >= 0 at SCALE (to three decimals).
Sqrt(x) == ISqrt(x * 100) * 10


Min(x, y) == IF x <= y THEN x ELSE y
Max(x, y) == IF x >= y THEN x ELSE y

\* max(lower, min(upper, x))
Clamp(lower, upper, x) == Max(lower, Min(upper, x))

\* Outcome of a division by zero (Python raises ZeroDivisionError); every
\* quotient the engine forms from non-negative operands is >= 0.
ZeroDivisionError == 0 - 1

\* n / d as Python evaluates it.
Div(n, d) == IF d = 0 THEN ZeroDivisionError ELSE Quot(n, d)

(***************************************************************************)
(* Binder-factor model: the body of predict_concrete_properties_cached.    *)
(* a is the argument record [cement, water, slag, fly_ash, silica_fume,    *)
(* coarse_agg, fine_agg, superplast, age], all integers (slider values).   *)
(***************************************************************************)

\* Degenerate with strict comparisons (water < 0 or cement < 0).
DegenerateStrict(a) == a.water < 0 \/ a.cement < 0

\* if water <= 0 or cement <= 0: return the all-zero estimate
Degenerate(a) == a.water <= 0 \/ a.cement <= 0

ZeroEstimate ==
    [status |-> "ok", compressive_strength |-> 0, tensile_strength |-> 0,
     elastic_modulus |-> 0, upv |-> 0, cost |-> 0]

TotalBinder(a) == a.cement + a.slag + a.fly_ash + a.silica_fume

\* AgeFactor normalised by np.log(28) instead of np.log(29).
AgeFactorLog28(age) ==
    IF age > 0 THEN (Log(age + 1) * SCALE) \div Log(28) ELSE SCALE

\* AgeFactor with the quotient inverted: np.log(29) / np.log(age + 1).
AgeFactorInverted(age) ==
    IF age > 0 THEN (Log(29) * SCALE) \div Log(age + 1) ELSE SCALE

\* AgeFactor with age <= 0 treated as age 1: np.log(2) / np.log(29).
AgeFactorDefaultAgeOne(age) ==
    IF age > 0 THEN (Log(age + 1) * SCALE) \div Log(29)
    ELSE (Log(2) * SCALE) \div Log(29)

\* AgeFactor with the logarithmic branch taken from age 0 on.
AgeFactorFromZero(age) ==
    IF age >= 0 THEN (Log(age + 1) * SCALE) \div Log(29) ELSE SCALE

\* np.log(age + 1) / np.log(29) if age > 0 else 1
AgeFactor(age) ==
    IF age > 0 THEN (Log(age + 1) * SCALE) \div Log(29) ELSE SCALE

\* BinderFactor with the quotient inverted: total_binder / part.
BinderFactorInverted(coeff, part, total_binder) ==
    IF total_binder > 0
    THEN LET q == Div(total_binder, part)
         IN  IF q = ZeroDivisionError THEN ZeroDivisionError
             ELSE SCALE + Mul(coeff, q)
    ELSE SCALE

\* 1 + coeff * (part / total_binder) if total_binder > 0 else 1
BinderFactor(coeff, part, total_binder) ==
    IF total_binder > 0
    THEN LET q == Div(part, total_binder)
         IN  IF q = ZeroDivisionError THEN ZeroDivisionError
             ELSE SCALE + Mul(coeff, q)
    ELSE SCALE

SlagFactor(a) == BinderFactor(3000, a.slag, TotalBinder(a))
FlyAshFactor(a) == BinderFactor(2000, a.fly_ash, TotalBinder(a))
SilicaFumeFactor(a) == BinderFactor(4000, a.silica_fume, TotalBinder(a))

\* 40 * (total_binder / water) ** 0.7
BaseStrength(a) ==
    IF a.water = 0 THEN ZeroDivisionError
    ELSE 40 * Pow07(TotalBinder(a), a.water)

\* 1 + superplast/100
SuperplastFactor(a) == SCALE + Quot(a.superplast, 100)

\* The statement(s) of the body that raise for this input, if any.
Raises(a) ==
    ZeroDivisionError \in
        {BaseStrength(a), SlagFactor(a), FlyAshFactor(a), SilicaFumeFactor(a)}

\* compressive_strength before the clamp:
\* base_strength * age_factor * slag_factor * fly_ash_factor *
\* silica_fume_factor * (1 + superplast/100), multiplied left to right.
RawCompressive(a) ==
    Mul(Mul(Mul(Mul(Mul(BaseStrength(a), AgeFactor(a.age)), SlagFactor(a)),
                FlyAshFactor(a)), SilicaFumeFactor(a)), SuperplastFactor(a))

\* CompressiveStrength with the lower bound 0 in place of 10.
CompressiveStrengthFromZero(a) ==
    Clamp(0, 120 * SCALE, RawCompressive(a))

\* compressive_strength = max(10, min(120, compressive_strength))
CompressiveStrength(a) == Clamp(10 * SCALE, 120 * SCALE, RawCompressive(a))

\* TensileStrength without its clamp.
TensileStrengthUnclamped(c, silica_fume) ==
    Mul(c, 800 + (700 * silica_fume) \div 100)

\* TensileStrength with 0.07 * silica_fume in place of
\* 0.07 * silica_fume / 100.
TensileStrengthPerUnit(c, silica_fume) ==
    Clamp(1 * SCALE, 15 * SCALE, Mul(c, 800 + 700 * silica_fume))

\* compressive_strength * (0.08 + 0.07 * silica_fume / 100), then
\* max(1, min(15, .)); c is the clamped compressive_strength.
TensileStrength(c, silica_fume) ==
    Clamp(1 * SCALE, 15 * SCALE, Mul(c, 800 + (700 * silica_fume) \div 100))

\* (coarse_agg + fine_agg) / 1800
DensityFactor(a) == Quot(a.coarse_agg + a.fine_agg, 1800)

\* 4700 * np.sqrt(compressive_strength) * density_factor, then
\* max(15000, min(50000, .))
ElasticModulus(c, density_factor) ==
    Clamp(15000 * SCALE, 50000 * SCALE, Mul(4700 * Sqrt(c), density_factor))

\* Upv with density_factor * 100 in place of density_factor * 200.
UpvHalfDensity(c, density_factor) ==
    Clamp(3000 * SCALE, 5000 * SCALE,
          3800 * SCALE + 15 * Sqrt(c) + density_factor * 100)

\* 3800 + 15 * np.sqrt(compressive_strength) + density_factor * 200, then
\* max(3000, min(5000, .))
Upv(c, density_factor) ==
    Clamp(3000 * SCALE, 5000 * SCALE,
          3800 * SCALE + 15 * Sqrt(c) + density_factor * 200)

\* Cost without the water term.
CostWithoutWater(a) ==
    a.cement * 1200 + a.slag * 800 + a.fly_ash * 600 + a.silica_fume * 8000
    + a.coarse_agg * 200 + a.fine_agg * 150 + a.superplast * 20000

\* material_costs table and the cost sum (water at 0.001); every unit cost
\* times SCALE is an integer, so the sum is exact.
Cost(a) ==
    a.cement * 1200 + a.slag * 800 + a.fly_ash * 600 + a.silica_fume * 8000
    + a.coarse_agg * 200 + a.fine_agg * 150 + a.superplast * 20000
    + a.water * 10

\* PredictBody with the tensile factor taken from the fraction
\* silica_fume / total_binder instead of silica_fume.
PredictBodyTensileOfFraction(a) ==
    IF Degenerate(a) THEN ZeroEstimate
    ELSE IF Raises(a) THEN [status |-> "ZeroDivisionError"]
    ELSE LET c == CompressiveStrength(a)
             density_factor == DensityFactor(a)
         IN  [status |-> "ok",
              compressive_strength |-> c,
              tensile_strength |->
                  Clamp(1 * SCALE, 15 * SCALE,
                        Mul(c, 800 + (700 * a.silica_fume)
                                         \div (100 * TotalBinder(a)))),
              elastic_modulus |-> ElasticModulus(c, density_factor),
              upv |-> Upv(c, density_factor),
              cost |-> Cost(a)]

\* PredictBody with the derived quantities computed before the clamp of
\* compressive_strength.
PredictBodyDerivedFromRaw(a) ==
    IF Degenerate(a) THEN ZeroEstimate
    ELSE IF Raises(a) THEN [status |-> "ZeroDivisionError"]
    ELSE LET raw == RawCompressive(a)
             density_factor == DensityFactor(a)
         IN  [status |-> "ok",
              compressive_strength |-> Clamp(10 * SCALE, 120 * SCALE, raw),
              tensile_strength |-> TensileStrength(raw, a.silica_fume),
              elastic_modulus |-> ElasticModulus(raw, density_factor),
              upv |-> Upv(raw, density_factor),
              cost |-> Cost(a)]

\* The function body: the value returned, or the exception raised.
PredictBody(a) ==
    IF Degenerate(a) THEN ZeroEstimate
    ELSE IF Raises(a) THEN [status |-> "ZeroDivisionError"]
    ELSE LET c == CompressiveStrength(a)
             density_factor == DensityFactor(a)
         IN  [status |-> "ok",
              compressive_strength |-> c,
              tensile_strength |-> TensileStrength(c, a.silica_fume),
              elastic_modulus |-> ElasticModulus(c, density_factor),
              upv |-> Upv(c, density_factor),
              cost |-> Cost(a)]

(***************************************************************************)
(* Linear-coefficient model:                                               *)
(* UHPCToHTMLConverter.predict_concrete_properties.  b is the argument     *)
(* record [cement, silica_fume, super_plasticizer, water_reducer,          *)
(* steel_fibers, aggregate, water, age].                                   *)
(***************************************************************************)

\* round(x, 2): the nearest multiple of 0.01, ties to even.
Round2(x) ==
    LET q == x \div 100
        r == x % 100
    IN  IF r > 50 \/ (r = 50 /\ q % 2 = 1) THEN (q + 1) * 100 ELSE q * 100

\* np.log(age + 1): finite for age + 1 >= 1, -inf at 0, nan below 0
\* (numpy warns, it does not raise).
AltLogStatus(b) ==
    IF b.age + 1 >= 1 THEN "ok" ELSE IF b.age + 1 = 0 THEN "-inf" ELSE "nan"

\* AltCompStrength clipped to [10, 120] MPa as in the binder-factor model.
AltCompStrengthClamped(b) ==
    Clamp(10 * SCALE, 120 * SCALE,
          4500 * b.cement + 8000 * b.silica_fume + 150000 * b.super_plasticizer
          + 80000 * b.water_reducer + 3000 * b.steel_fibers - 2000 * b.water
          + 5 * Log(b.age + 1) + 25 * SCALE)

\* comp_strength, for a finite log term
AltCompStrength(b) ==
    4500 * b.cement + 8000 * b.silica_fume + 150000 * b.super_plasticizer
    + 80000 * b.water_reducer + 3000 * b.steel_fibers - 2000 * b.water
    + 5 * Log(b.age + 1) + 25 * SCALE

\* 0.08 * comp_strength + 0.02 * steel_fibers + 2
\* AltTensileStrength computed from the rounded compressive strength.
AltTensileStrengthOfRounded(b) ==
    Mul(Round2(AltCompStrength(b)), 800) + 200 * b.steel_fibers + 2 * SCALE

AltTensileStrength(b) ==
    Mul(AltCompStrength(b), 800) + 200 * b.steel_fibers + 2 * SCALE

\* 25 + 0.15 * comp_strength + 0.001 * steel_fibers
AltElasticModulus(b) ==
    25 * SCALE + Mul(AltCompStrength(b), 1500) + 10 * b.steel_fibers

\* 3.8 + 0.01 * comp_strength + 0.0001 * steel_fibers
AltUpv(b) ==
    38000 + Mul(AltCompStrength(b), 100) + b.steel_fibers

\* cement*0.12 + silica_fume*0.8 + super_plasticizer*2.5 + water_reducer*1.8
\* + steel_fibers*1.2 + aggregate*0.05 + 50
AltCost(b) ==
    b.cement * 1200 + b.silica_fume * 8000 + b.super_plasticizer * 25000
    + b.water_reducer * 18000 + b.steel_fibers * 12000 + b.aggregate * 500
    + 50 * SCALE

\* The value returned.  When the log term is not finite, every field that
\* depends on comp_strength is that non-finite value (status names it) and
\* only cost is a number.
AltPredictBody(b) ==
    IF AltLogStatus(b) = "ok"
    THEN [status |-> "ok",
          compressive_strength |-> Round2(AltCompStrength(b)),
          tensile_strength |-> Round2(AltTensileStrength(b)),
          elastic_modulus |-> Round2(AltElasticModulus(b)),
          upv |-> Round2(AltUpv(b)),
          cost |-> Round2(AltCost(b))]
    ELSE [status |-> AltLogStatus(b), cost |-> Round2(AltCost(b))]

(***************************************************************************)
(* Inputs                                                                  *)
(***************************************************************************)

\* Ages: the slider range 1..365 sampled (every age of 1..29, then 90 and
\* 365), and the non-positive ages 0 and -1.
Ages == (-1 .. 29) \cup {90, 365}

\* Mixes within the slider ranges of property_prediction_demo.
DashboardInputs ==
    [cement : {200, 400, 500}, water : {120, 160, 250}, slag : {0, 200},
     fly_ash : {0, 150}, silica_fume : {0, 40}, coarse_agg : {800, 1200},
     fine_agg : {750}, superplast : {0, 12}, age : Ages]

\* The two ends of every slider of property_prediction_demo.
DashboardCorners ==
    [cement : {200, 500}, water : {120, 250}, slag : {0, 200},
     fly_ash : {0, 150}, silica_fume : {0, 50}, coarse_agg : {800, 1200},
     fine_agg : {600, 900}, superplast : {0, 20}, age : {1, 365}]

\* The preset scenarios of property_prediction_demo.
StandardUHPC ==
    [cement |-> 400, water |-> 160, slag |-> 0, fly_ash |-> 0,
     silica_fume |-> 40, coarse_agg |-> 1000, fine_agg |-> 750,
     superplast |-> 12, age |-> 28]

HighStrengthBridge ==
    [cement |-> 450, water |-> 140, slag |-> 50, fly_ash |-> 0,
     silica_fume |-> 45, coarse_agg |-> 950, fine_agg |-> 700,
     superplast |-> 15, age |-> 28]

SustainableMix ==
    [cement |-> 300, water |-> 150, slag |-> 120, fly_ash |-> 80,
     silica_fume |-> 25, coarse_agg |-> 1000, fine_agg |-> 750,
     superplast |-> 8, age |-> 28]

CostOptimized ==
    [cement |-> 320, water |-> 175, slag |-> 80, fly_ash |-> 60,
     silica_fume |-> 15, coarse_agg |-> 1050, fine_agg |-> 800,
     superplast |-> 6, age |-> 28]

CustomParameters ==
    [cement |-> 350, water |-> 175, slag |-> 50, fly_ash |-> 30,
     silica_fume |-> 20, coarse_agg |-> 1000, fine_agg |-> 750,
     superplast |-> 8, age |-> 28]

PresetInputs ==
    {[m EXCEPT !.age = g] :
        m \in {StandardUHPC, HighStrengthBridge, SustainableMix,
               CostOptimized, CustomParameters},
        g \in Ages}

\* Non-negative mixes outside the slider ranges: very lean and very rich
\* binders, no aggregate, much silica fume.
ExtremeInputs ==
    [cement : {1, 1000}, water : {20, 1000}, slag : {0}, fly_ash : {0},
     silica_fume : {0, 150}, coarse_agg : {0, 1000}, fine_agg : {0, 750},
     superplast : {0, 20}, age : {0, 1, 2, 27, 28, 365}]

\* Mixes with water <= 0 or cement <= 0 (and, for contrast, neither).
DegenerateInputs ==
    [cement : {-10, 0, 400}, water : {-5, 0, 160}, slag : {0, 120},
     fly_ash : {0}, silica_fume : {0, 40}, coarse_agg : {1000},
     fine_agg : {750}, superplast : {0, 12}, age : {-1, 0, 1, 28}]

PrimaryInputs ==
    DashboardInputs \cup DashboardCorners \cup PresetInputs
    \cup ExtremeInputs \cup DegenerateInputs

\* generate_html_report's sample call of the linear-coefficient model.
SampleValues ==
    [cement |-> 800, silica_fume |-> 150, super_plasticizer |-> 25,
     water_reducer |-> 15, steel_fibers |-> 150, aggregate |-> 1800,
     water |-> 180, age |-> 28]

\* Lean mixes whose strength has digits beyond the second decimal (the
\* logarithm's): 43.18648 MPa for 3 kg of cement at 28 days.
AltFractionalInputs ==
    [cement : {3, 10}, silica_fume : {0}, super_plasticizer : {0},
     water_reducer : {0}, steel_fibers : {0, 150}, aggregate : {0},
     water : {0, 180}, age : {1, 28}]

AltInputs ==
    [cement : {0, 800}, silica_fume : {0, 150}, super_plasticizer : {0, 25},
     water_reducer : {0, 15}, steel_fibers : {0, 150}, aggregate : {0, 1800},
     water : {0, 180, 1000}, age : {-2, -1, 0, 1, 28}]
    \cup AltFractionalInputs

\* The UPV quality label property_prediction_demo shows.
UpvQuality(upv) ==
    IF upv > 4500 * SCALE THEN "Excellent"
    ELSE IF upv > 4000 * SCALE THEN "Good"
    ELSE "Fair"

\* All quantities of a primary input are >= 0 (age apart).
NonNegative(a) ==
    /\ a.cement >= 0 /\ a.water >= 0 /\ a.slag >= 0 /\ a.fly_ash >= 0
    /\ a.silica_fume >= 0 /\ a.coarse_agg >= 0 /\ a.fine_agg >= 0
    /\ a.superplast >= 0

\* All quantities of an alternate input are >= 0, age included.
AltNonNegative(b) ==
    /\ b.cement >= 0 /\ b.silica_fume >= 0 /\ b.super_plasticizer >= 0
    /\ b.water_reducer >= 0 /\ b.steel_fibers >= 0 /\ b.aggregate >= 0
    /\ b.water >= 0 /\ b.age >= 0

(***************************************************************************)
(* State                                                                   *)
(***************************************************************************)

VARIABLES
    inputs,   \* the function and argument values the caller holds
    cache,    \* st.cache_data's store of predict_concrete_properties_cached
    log,      \* the calls made so far: <<[fn, args, ret], ...>>
    held,     \* held[i]: the dict call i returned, as its caller holds it now
    converter,\* the UHPCToHTMLConverter's fields html_content and charts
    threads,  \* the calls in flight, one per concurrent caller
    validation,\* the locals of a run of literature_validation_demo
    comparison,\* the locals of a run of mix_comparison_demo
    progression\* the locals of a run of age_effects_demo

vars ==
    <<inputs, cache, log, held, converter, threads, validation, comparison,
      progression>>

\* UHPCToHTMLConverter.__init__
NewConverter == [html_content |-> "", charts |-> <<>>]

\* No concurrent caller has called.
NoThreads == <<>>

\* literature_validation_demo is not running.
NoValidation == [pc |-> "none"]

\* mix_comparison_demo is not running.
NoComparison == [pc |-> "none"]

\* age_effects_demo is not running.
NoProgression == [pc |-> "none"]

\* The locals of the three demo pages.
pages == <<validation, comparison, progression>>

FnPrimary == "predict_concrete_properties_cached"
FnAlt == "predict_concrete_properties"

NoInputs == [fn |-> "none"]

\* The last call made.
Last == log[Len(log)]

(***************************************************************************)
(* @st.cache_data: the wrapper around predict_concrete_properties_cached   *)
(***************************************************************************)

\* MakeKey without the age argument.
MakeKeyWithoutAge(a) == [a EXCEPT !.age = 0]

\* The cache key: the values of all nine arguments.
MakeKey(a) == a

\* CacheStore matching entries on the mix alone: the write also replaces
\* the stored values of the other ages of the same mix.
CacheStoreByMix(c, key, val) ==
    [k \in DOMAIN c \cup {key} |->
        IF [k EXCEPT !.age = 0] = [key EXCEPT !.age = 0] THEN val ELSE c[k]]

\* The entry written after a miss.
CacheStore(c, key, val) ==
    [k \in DOMAIN c \cup {key} |-> IF k = key THEN val ELSE c[k]]

(***************************************************************************)
(* Operations                                                              *)
(***************************************************************************)

\* One call of predict_concrete_properties_cached(a): a hit returns the
\* stored value; a miss runs the body, stores its value unless it raised,
\* and returns it.
CallPrimary(a) ==
    LET key == MakeKey(a)
        hit == key \in DOMAIN cache
        val == IF hit THEN cache[key] ELSE PredictBody(a)
    IN  /\ log' = Append(log, [fn |-> FnPrimary, args |-> a, ret |-> val])
        /\ held' = Append(held, val)
        /\ cache' = IF hit \/ val.status # "ok" THEN cache
                    ELSE CacheStore(cache, key, val)
        /\ UNCHANGED <<converter, threads>>

\* One call of UHPCToHTMLConverter.predict_concrete_properties(b).
CallAlt(b) ==
    /\ log' = Append(log, [fn |-> FnAlt, args |-> b,
                           ret |-> AltPredictBody(b)])
    /\ held' = Append(held, AltPredictBody(b))
    /\ UNCHANGED <<cache, converter, threads, pages>>

\* The engine applied once to the inputs the caller holds.
RunPrimary ==
    /\ log = <<>>
    /\ inputs.fn = FnPrimary
    /\ CallPrimary(inputs.args)
    /\ UNCHANGED <<inputs, pages>>

RunAlt ==
    /\ log = <<>>
    /\ inputs.fn = FnAlt
    /\ CallAlt(inputs.args)
    /\ UNCHANGED inputs

Init ==
    /\ inputs \in [fn : {FnPrimary}, args : PrimaryInputs]
                  \cup [fn : {FnAlt}, args : AltInputs]
    /\ cache = <<>>
    /\ log = <<>>
    /\ held = <<>>
    /\ converter = NewConverter
    /\ threads = NoThreads
    /\ validation = NoValidation
    /\ comparison = NoComparison
    /\ progression = NoProgression

Next == RunPrimary \/ RunAlt

Spec == Init /\ [][Next]_vars

(***************************************************************************)
(* Sequences of calls in one process: the sessions' reruns call the cached *)
(* engine with changing slider values, the report generator calls the      *)
(* linear-coefficient model.                                               *)
(***************************************************************************)

MaxCalls == 3

SessionInputs ==
    {[StandardUHPC EXCEPT !.age = g] : g \in {0, 1, 28}}
    \cup {SustainableMix, [StandardUHPC EXCEPT !.water = 0]}

SessionAltInputs == {SampleValues, [SampleValues EXCEPT !.age = 0]}

Rerun(a) ==
    /\ Len(log) < MaxCalls
    /\ inputs' = [fn |-> FnPrimary, args |-> a]
    /\ CallPrimary(a)
    /\ UNCHANGED pages

Report(b) ==
    /\ Len(log) < MaxCalls
    /\ inputs' = [fn |-> FnAlt, args |-> b]
    /\ CallAlt(b)

InitCalls ==
    /\ inputs = NoInputs
    /\ cache = <<>>
    /\ log = <<>>
    /\ held = <<>>
    /\ converter = NewConverter
    /\ threads = NoThreads
    /\ validation = NoValidation
    /\ comparison = NoComparison
    /\ progression = NoProgression

NextCalls ==
    \/ \E a \in SessionInputs : Rerun(a)
    \/ \E b \in SessionAltInputs : Report(b)

SpecCalls == InitCalls /\ [][NextCalls]_vars

(***************************************************************************)
(* Concurrent callers: each Streamlit session runs its script in a thread  *)
(* of one process, and the store of st.cache_data belongs to the process.  *)
(* A call of the cached engine is a lookup in the store and, on a miss,    *)
(* the run of the body followed by the write of its value; the steps of    *)
(* different callers interleave freely (no lock is assumed).  A call of    *)
(* the linear-coefficient model is the run of its body.                    *)
(***************************************************************************)

NumCallers == 2

Callers == 1 .. NumCallers

Pending == [status |-> "pending"]

\* A caller that has not called yet.
Idle ==
    [pc |-> "idle", fn |-> "none", args |-> <<>>, ret |-> Pending,
     hit |-> FALSE, wrote |-> FALSE]

\* Caller t calls fn(args).
Invoke(t, fn, args) ==
    /\ threads[t].pc = "idle"
    /\ threads' = [threads EXCEPT ![t] =
                      [pc |-> "called", fn |-> fn, args |-> args,
                       ret |-> Pending, hit |-> FALSE, wrote |-> FALSE]]
    /\ UNCHANGED <<inputs, cache, log, held, converter, pages>>

\* The wrapper looks caller t's key up: a hit returns the stored value.
Lookup(t) ==
    /\ threads[t].pc = "called"
    /\ threads[t].fn = FnPrimary
    /\ LET key == MakeKey(threads[t].args)
       IN  threads' = [threads EXCEPT ![t] =
                          IF key \in DOMAIN cache
                          THEN [@ EXCEPT !.pc = "done", !.ret = cache[key],
                                         !.hit = TRUE]
                          ELSE [@ EXCEPT !.pc = "miss"]]
    /\ UNCHANGED <<inputs, cache, log, held, converter, pages>>

\* After a miss the body runs on caller t's arguments; its value is written
\* to the store (unless it raised) and returned.
ComputeAndStore(t) ==
    /\ threads[t].pc = "miss"
    /\ LET key == MakeKey(threads[t].args)
           val == PredictBody(threads[t].args)
       IN  /\ cache' = IF val.status # "ok" THEN cache
                       ELSE CacheStore(cache, key, val)
           /\ threads' = [threads EXCEPT ![t] =
                             [@ EXCEPT !.pc = "done", !.ret = val,
                                       !.wrote = (val.status = "ok")]]
    /\ UNCHANGED <<inputs, log, held, converter, pages>>

\* The body of the linear-coefficient model runs on caller t's arguments.
AltBody(t) ==
    /\ threads[t].pc = "called"
    /\ threads[t].fn = FnAlt
    /\ threads' = [threads EXCEPT ![t] =
                      [@ EXCEPT !.pc = "done",
                                !.ret = AltPredictBody(threads[t].args)]]
    /\ UNCHANGED <<inputs, cache, log, held, converter, pages>>

InitConcurrent ==
    /\ inputs = NoInputs
    /\ cache = <<>>
    /\ log = <<>>
    /\ held = <<>>
    /\ converter = NewConverter
    /\ threads = [t \in Callers |-> Idle]
    /\ validation = NoValidation
    /\ comparison = NoComparison
    /\ progression = NoProgression

NextConcurrent ==
    \E t \in Callers :
        \/ \E a \in SessionInputs : Invoke(t, FnPrimary, a)
        \/ \E b \in SessionAltInputs : Invoke(t, FnAlt, b)
        \/ Lookup(t)
        \/ ComputeAndStore(t)
        \/ AltBody(t)

SpecConcurrent == InitConcurrent /\ [][NextConcurrent]_vars

(***************************************************************************)
(* Callers that write to the dict they received.  st.cache_data keeps a    *)
(* pickled copy of the value and hands out an unpickled copy on a hit, so  *)
(* the dict a caller holds is never the object in the store.               *)
(***************************************************************************)

\* The store holding the very object it handed out (what st.cache_resource
\* does): the caller's write is seen in the entry.
StoreAliased(c, key, obj) ==
    IF key \in DOMAIN c THEN [c EXCEPT ![key] = obj] ELSE c

\* The store after a caller wrote to the dict obj it received for key.
StoreAfterMutation(c, key, obj) == c

\* The caller overwrites a field of the estimate its last call returned:
\* properties['compressive_strength'] = 0.
Mutate ==
    LET i == Len(log)
    IN  /\ i >= 1
        /\ held[i].status = "ok"
        /\ held[i].compressive_strength # 0
        /\ held' = [held EXCEPT ![i].compressive_strength = 0]
        /\ cache' = IF log[i].fn = FnPrimary
                    THEN StoreAfterMutation(cache, MakeKey(log[i].args),
                                            held'[i])
                    ELSE cache
        /\ UNCHANGED <<inputs, log, converter, threads, pages>>

NextOwners ==
    \/ \E a \in SessionInputs : Rerun(a)
    \/ \E b \in SessionAltInputs : Report(b)
    \/ Mutate

SpecOwners == InitCalls /\ [][NextOwners]_vars

(***************************************************************************)
(* literature_validation_demo: the strength-gain curve of one mix over the *)
(* ages 1..90, normalised by its 28-day strength, next to the ACI 209R-92  *)
(* and Eurocode 2 curves.                                                  *)
(***************************************************************************)

\* x / y at SCALE for fixed-point x >= 0, y > 0 at SCALE (both below
\* 2 * 10^6): floor(x * SCALE / y), by long division.
Ratio(x, y) ==
    LET r == (x % y) * KILO
    IN  (x \div y) * SCALE + (r \div y) * 10 + ((r % y) * 10) \div y

\* ages = np.arange(1, 91)
ValidationAges == [i \in 1 .. 90 |-> i]

\* "Standard UHPC vs Literature"
StandardVsLiterature ==
    [cement |-> 400, water |-> 160, slag |-> 0, fly_ash |-> 0,
     silica_fume |-> 40, coarse_agg |-> 1000, fine_agg |-> 750,
     superplast |-> 12]

\* "High-Performance Comparison"
HighPerformanceComparison ==
    [cement |-> 450, water |-> 140, slag |-> 0, fly_ash |-> 0,
     silica_fume |-> 50, coarse_agg |-> 950, fine_agg |-> 700,
     superplast |-> 15]

\* "Custom Validation": the sliders' ends and defaults.
CustomValidation ==
    {[cement |-> c, water |-> w, slag |-> sf[1], fly_ash |-> sf[2],
      silica_fume |-> sf[3], coarse_agg |-> 1000, fine_agg |-> 750,
      superplast |-> sp] :
        c \in {200, 350, 500}, w \in {120, 175, 250},
        sf \in {<<0, 0, 0>>, <<200, 150, 50>>}, sp \in {0, 5, 20}}

ValidationInputs ==
    {StandardVsLiterature, HighPerformanceComparison} \cup CustomValidation

\* The arguments of the engine for the mix m at the given age.
WithAge(m, age) ==
    [cement |-> m.cement, water |-> m.water, slag |-> m.slag,
     fly_ash |-> m.fly_ash, silica_fume |-> m.silica_fume,
     coarse_agg |-> m.coarse_agg, fine_agg |-> m.fine_agg,
     superplast |-> m.superplast, age |-> age]

\* OwnPercent against the upper clamp instead of the 28-day strength.
OwnPercentOfCap(s, strength_28) == Ratio(s, 120 * SCALE) * 100

\* (s / strength_28) * 100
OwnPercent(s, strength_28) == Ratio(s, strength_28) * 100

\* AciPercent with the two coefficients exchanged.
AciPercentSwapped(age) == Quot(100 * age, 85 + 400 * age) * 100

\* (age / (4.0 + 0.85 * age)) * 100
AciPercent(age) == Quot(100 * age, 400 + 85 * age) * 100

\* EurocodePercent with the fallback taken up to and including age 3.
EurocodePercentAfter3(age) ==
    IF age > 3
    THEN (ExpFine(((2 * (SCALE - Sqrt(Quot(28, age)))) \div 10)
                  * (FINE \div SCALE)) \div (FINE \div SCALE)) * 100
    ELSE 50 * SCALE

\* np.exp(0.2 * (1 - np.sqrt(28/age))) * 100 if age >= 3 else 50
EurocodePercent(age) ==
    IF age >= 3
    THEN (ExpFine(((2 * (SCALE - Sqrt(Quot(28, age)))) \div 10)
                  * (FINE \div SCALE)) \div (FINE \div SCALE)) * 100
    ELSE 50 * SCALE

\* One iteration of "for age in ages": a call of the cached engine, its
\* compressive_strength appended to our_predictions.
ValidationLoop ==
    /\ validation.pc = "loop"
    /\ Len(validation.our_predictions) < Len(validation.ages)
    /\ CallPrimary(WithAge(validation.mix,
                           validation.ages[Len(validation.our_predictions)
                                           + 1]))
    /\ validation' =
          [validation EXCEPT
              !.our_predictions =
                  Append(@, log'[Len(log')].ret.compressive_strength)]
    /\ UNCHANGED <<inputs, comparison, progression>>

\* After the loop: the 28-day call, then the three percentage lists.
ValidationNormalize ==
    /\ validation.pc = "loop"
    /\ Len(validation.our_predictions) = Len(validation.ages)
    /\ CallPrimary(WithAge(validation.mix, 28))
    /\ LET strength_28 == log'[Len(log')].ret.compressive_strength
       IN  validation' =
              [validation EXCEPT
                  !.pc = "done",
                  !.strength_28 = strength_28,
                  !.our_percentages =
                      [i \in DOMAIN validation.our_predictions |->
                          OwnPercent(validation.our_predictions[i],
                                     strength_28)],
                  !.aci_percentages =
                      [i \in DOMAIN validation.ages |->
                          AciPercent(validation.ages[i])],
                  !.eurocode_percentages =
                      [i \in DOMAIN validation.ages |->
                          EurocodePercent(validation.ages[i])]]
    /\ UNCHANGED <<inputs, comparison, progression>>

\* The page is opened with one of the scenarios selected.
InitValidation ==
    /\ inputs = NoInputs
    /\ cache = <<>>
    /\ log = <<>>
    /\ held = <<>>
    /\ converter = NewConverter
    /\ threads = NoThreads
    /\ validation \in
          [pc : {"loop"}, mix : ValidationInputs, ages : {ValidationAges},
           our_predictions : {<<>>}, strength_28 : {0},
           our_percentages : {<<>>}, aci_percentages : {<<>>},
           eurocode_percentages : {<<>>}]
    /\ comparison = NoComparison
    /\ progression = NoProgression

NextValidation == ValidationLoop \/ ValidationNormalize

SpecValidation == InitValidation /\ [][NextValidation]_vars

(***************************************************************************)
(* mix_comparison_demo: three candidate mixes evaluated at one target age, *)
(* one table row per mix with the values formatted for display, and the    *)
(* ranking sorted on the displayed strength.                               *)
(***************************************************************************)

\* The multiple of unit nearest to x, ties to even: what f"{x:.nf}" shows.
RoundTo(x, unit) ==
    LET q == x \div unit
        r == x % unit
    IN  IF 2 * r > unit \/ (2 * r = unit /\ q % 2 = 1) THEN (q + 1) * unit
        ELSE q * unit

\* FormatOneDecimal keeping every digit.
FormatUnrounded(x) == x

\* f"{x:.1f}"
FormatOneDecimal(x) == RoundTo(x, SCALE \div 10)

\* f"{x:.2f}"
FormatTwoDecimals(x) == RoundTo(x, SCALE \div 100)

\* f"{x:.3f}"
FormatThreeDecimals(x) == RoundTo(x, SCALE \div KILO)

\* "Standard vs UHPC vs Sustainable"
PresetComparison ==
    <<[name |-> "Standard UHPC", cement |-> 400, water |-> 160, slag |-> 0,
       fly_ash |-> 0, silica_fume |-> 40, coarse_agg |-> 1000,
       fine_agg |-> 750, superplast |-> 12],
      [name |-> "High-Performance UHPC", cement |-> 450, water |-> 140,
       slag |-> 0, fly_ash |-> 0, silica_fume |-> 50, coarse_agg |-> 950,
       fine_agg |-> 700, superplast |-> 15],
      [name |-> "Sustainable UHPC", cement |-> 300, water |-> 150,
       slag |-> 120, fly_ash |-> 80, silica_fume |-> 25,
       coarse_agg |-> 1000, fine_agg |-> 750, superplast |-> 10]>>

\* Mix i of the sidebar: the sliders' defaults with some silica fume
\* settings, and the strongest mix the sliders allow.
SidebarMixes(i) ==
    {[name |-> i, cement |-> 350, water |-> 175, slag |-> 50,
      fly_ash |-> 30, silica_fume |-> sf, coarse_agg |-> 1000,
      fine_agg |-> 750, superplast |-> 8] : sf \in {20, 23, 24}}
    \cup {[name |-> i, cement |-> 500, water |-> 120, slag |-> 200,
           fly_ash |-> 150, silica_fume |-> 50, coarse_agg |-> 1000,
           fine_agg |-> 750, superplast |-> 20]}

ComparisonScenarios ==
    {PresetComparison}
    \cup {<<m1, m2, m3>> : m1 \in SidebarMixes("Mix 1"),
                           m2 \in SidebarMixes("Mix 2"),
                           m3 \in SidebarMixes("Mix 3")}

\* The table row of one mix.
ResultRow(mix, properties) ==
    LET total_binder == mix.cement + mix.slag + mix.fly_ash + mix.silica_fume
    IN  [name |-> mix.name,
         compressive_strength |->
             FormatOneDecimal(properties.compressive_strength),
         tensile_strength |-> FormatOneDecimal(properties.tensile_strength),
         cost |-> FormatTwoDecimals(properties.cost),
         wc_ratio |-> FormatThreeDecimals(Quot(mix.water, mix.cement)),
         scm_percentage |->
             FormatOneDecimal(IF total_binder > 0
                              THEN Quot(mix.slag + mix.fly_ash, total_binder)
                                   * 100
                              ELSE 0),
         strength_cost_ratio |->
             FormatTwoDecimals(Ratio(properties.compressive_strength,
                                     properties.cost))]

\* The number of rows of the sequence whose displayed strength is >= key.
RECURSIVE CountAtLeast(_, _)
CountAtLeast(rows, key) ==
    IF rows = <<>> THEN 0
    ELSE (IF Head(rows).compressive_strength >= key THEN 1 ELSE 0)
         + CountAtLeast(Tail(rows), key)

\* sorted(results, key=float(compressive strength), reverse=True): Python's
\* sort is stable, also with reverse=True, so a row goes behind the rows
\* before it whose key is at least its own.
RECURSIVE SortedDescending(_)
SortedDescending(rows) ==
    IF rows = <<>> THEN <<>>
    ELSE LET n == Len(rows)
             done == SortedDescending(SubSeq(rows, 1, n - 1))
             k == CountAtLeast(done, rows[n].compressive_strength)
         IN  SubSeq(done, 1, k) \o <<rows[n]>> \o SubSeq(done, k + 1, n - 1)

\* One iteration of "for mix in mixes": the engine is called at target_age
\* and the row appended.
ComparisonLoop ==
    /\ comparison.pc = "loop"
    /\ Len(comparison.results) < Len(comparison.mixes)
    /\ LET mix == comparison.mixes[Len(comparison.results) + 1]
       IN  /\ CallPrimary(WithAge(mix, comparison.target_age))
           /\ comparison' =
                 [comparison EXCEPT
                     !.results =
                         Append(@, ResultRow(mix, log'[Len(log')].ret))]
    /\ UNCHANGED <<inputs, validation, progression>>

\* "Performance Ranking": the rows sorted by displayed strength.
ComparisonRank ==
    /\ comparison.pc = "loop"
    /\ Len(comparison.results) = Len(comparison.mixes)
    /\ comparison' =
          [comparison EXCEPT
              !.pc = "done",
              !.sorted_results = SortedDescending(comparison.results)]
    /\ UNCHANGED <<inputs, cache, log, held, converter, threads, validation,
                   progression>>

InitComparison ==
    /\ inputs = NoInputs
    /\ cache = <<>>
    /\ log = <<>>
    /\ held = <<>>
    /\ converter = NewConverter
    /\ threads = NoThreads
    /\ validation = NoValidation
    /\ comparison \in
          [pc : {"loop"}, mixes : ComparisonScenarios, target_age : {1, 28},
           results : {<<>>}, sorted_results : {<<>>}]
    /\ progression = NoProgression

NextComparison == ComparisonLoop \/ ComparisonRank

SpecComparison == InitComparison /\ [][NextComparison]_vars

(***************************************************************************)
(* age_effects_demo: the strength development of one mix over the key ages *)
(* up to max_age.                                                          *)
(***************************************************************************)

\* key_ages = [1, 3, 7, 14, 28, 56, 90, 180, 365]
KeyAges == <<1, 3, 7, 14, 28, 56, 90, 180, 365>>

\* [age for age in key_ages if age <= max_age]
AgesUpTo(max_age) == SelectSeq(KeyAges, LAMBDA age : age <= max_age)

\* The slider "Maximum Age for Analysis": 28..365 in steps of 7, default 90.
MaxAges == {28, 35, 56, 84, 90, 182, 364}

\* The three preset scenarios, and the "Custom Mix" sidebar at its
\* defaults and at the weakest and strongest settings.
ProgressionInputs ==
    {StandardVsLiterature, HighPerformanceComparison,
     [cement |-> 300, water |-> 150, slag |-> 100, fly_ash |-> 80,
      silica_fume |-> 25, coarse_agg |-> 1000, fine_agg |-> 750,
      superplast |-> 10],
     [cement |-> 350, water |-> 175, slag |-> 50, fly_ash |-> 30,
      silica_fume |-> 20, coarse_agg |-> 1000, fine_agg |-> 750,
      superplast |-> 8],
     [cement |-> 200, water |-> 250, slag |-> 0, fly_ash |-> 0,
      silica_fume |-> 0, coarse_agg |-> 800, fine_agg |-> 600,
      superplast |-> 0],
     [cement |-> 500, water |-> 120, slag |-> 200, fly_ash |-> 150,
      silica_fume |-> 50, coarse_agg |-> 1200, fine_agg |-> 900,
      superplast |-> 20]}

\* StrengthGain normalised by the first entry instead of the fifth.
StrengthGainAgainstFirst(progression_data, c) ==
    IF Len(progression_data) > 4
    THEN Ratio(c, progression_data[1].compressive_strength) * 100
    ELSE 100 * SCALE

\* (c / progression_data[4]['Compressive Strength (MPa)'] * 100)
\* if len(progression_data) > 4 else 100; Python counts entries from 0.
StrengthGain(progression_data, c) ==
    IF Len(progression_data) > 4
    THEN Ratio(c, progression_data[5].compressive_strength) * 100
    ELSE 100 * SCALE

\* One iteration of "for age in key_ages": the engine is called and the row
\* of the age appended.
ProgressionLoop ==
    /\ progression.pc = "loop"
    /\ Len(progression.progression_data) < Len(progression.key_ages)
    /\ LET age == progression.key_ages[Len(progression.progression_data) + 1]
       IN  /\ CallPrimary(WithAge(progression.mix, age))
           /\ LET properties == log'[Len(log')].ret
              IN  progression' =
                     [progression EXCEPT
                         !.progression_data =
                             Append(@,
                                 [age |-> age,
                                  compressive_strength |->
                                      properties.compressive_strength,
                                  tensile_strength |->
                                      properties.tensile_strength,
                                  elastic_modulus |->
                                      properties.elastic_modulus \div KILO,
                                  strength_gain |->
                                      StrengthGain(
                                          progression.progression_data,
                                          properties.compressive_strength)])]
    /\ UNCHANGED <<inputs, validation, comparison>>

InitProgression ==
    /\ inputs = NoInputs
    /\ cache = <<>>
    /\ log = <<>>
    /\ held = <<>>
    /\ converter = NewConverter
    /\ threads = NoThreads
    /\ validation = NoValidation
    /\ comparison = NoComparison
    /\ progression \in
          {[pc |-> "loop", mix |-> m, max_age |-> x, key_ages |-> AgesUpTo(x),
            progression_data |-> <<>>] :
              m \in ProgressionInputs, x \in MaxAges}

NextProgression == ProgressionLoop

SpecProgression == InitProgression /\ [][NextProgression]_vars

\* Python's x / y of the pages: ZeroDivisionError when y is 0.
Divide(x, y) == IF y = 0 THEN ZeroDivisionError ELSE Ratio(x, y)

\* The ratios property_prediction_demo shows next to one estimate:
\* tensile/compressive (as a percentage), E/fc, W/C and strength/cost.
PredictionMetrics(a, properties) ==
    [tensile_ratio |->
         IF properties.compressive_strength = 0 THEN ZeroDivisionError
         ELSE Ratio(properties.tensile_strength,
                    properties.compressive_strength) * 100,
     e_fc |-> Divide(properties.elastic_modulus,
                     properties.compressive_strength),
     wc_ratio |-> IF a.cement = 0 THEN ZeroDivisionError
                  ELSE Quot(a.water, a.cement),
     strength_cost |-> Divide(properties.compressive_strength,
                              properties.cost)]

(***************************************************************************)
(* Properties                                                              *)
(***************************************************************************)

\* A call has been made.
Called == log # <<>>

CalledPrimary == Called /\ Last.fn = FnPrimary
CalledAlt == Called /\ Last.fn = FnAlt

\* lo <= x <= hi, in MPa or m/s.
Within(x, lo, hi) == lo * SCALE <= x /\ x <= hi * SCALE

\* |x - y| <= 1% of y
WithinOnePercent(x, y) == 100 * x >= 99 * y /\ 100 * x <= 101 * y

\* C1: every call of the binder-factor model with water > 0, cement > 0,
\* the other quantities >= 0 and age >= 1 returns compressive_strength in
\* [10, 120], tensile_strength in [1, 15], elastic_modulus in
\* [15000, 50000] and upv in [3000, 5000].
C1_RangesHold ==
    (/\ CalledPrimary
     /\ Last.args.water > 0 /\ Last.args.cement > 0
     /\ NonNegative(Last.args) /\ Last.args.age >= 1)
    => /\ Last.ret.status = "ok"
       /\ Within(Last.ret.compressive_strength, 10, 120)
       /\ Within(Last.ret.tensile_strength, 1, 15)
       /\ Within(Last.ret.elastic_modulus, 15000, 50000)
       /\ Within(Last.ret.upv, 3000, 5000)

\* A valid call whose strength, tensile strength and modulus would all have
\* left their ranges: the three clamps acted.
C1_Witness ==
    /\ CalledPrimary
    /\ Last.args.water > 0 /\ Last.args.cement > 0
    /\ NonNegative(Last.args) /\ Last.args.age >= 1
    /\ RawCompressive(Last.args) > 120 * SCALE
    /\ Last.ret.compressive_strength = 120 * SCALE
    /\ Last.ret.tensile_strength = 15 * SCALE
    /\ Last.ret.elastic_modulus = 15000 * SCALE

\* C2: a call with water <= 0 or cement <= 0 returns normally, and its five
\* fields are all exactly 0, whatever the other arguments are.
C2_DegenerateIsZero ==
    (CalledPrimary /\ (Last.args.water <= 0 \/ Last.args.cement <= 0))
    => /\ Last.ret.status = "ok"
       /\ Last.ret.compressive_strength = 0
       /\ Last.ret.tensile_strength = 0
       /\ Last.ret.elastic_modulus = 0
       /\ Last.ret.upv = 0
       /\ Last.ret.cost = 0

\* A call with water = 0 and every other quantity of a real mix.
C2_Witness ==
    /\ CalledPrimary
    /\ Last.args.water = 0 /\ Last.args.cement = 400
    /\ Last.args.slag > 0 /\ Last.args.silica_fume > 0
    /\ Last.args.superplast > 0

\* C3 as stated: for 'Standard UHPC' the engine returns a compressive
\* strength within 1% of 89.8 MPa, baseStrength is about 77.4 (within 1%),
\* and the result is left unclamped.
C3_AsStated ==
    (CalledPrimary /\ Last.args = StandardUHPC)
    => /\ WithinOnePercent(Last.ret.compressive_strength, 898000)
       /\ WithinOnePercent(BaseStrength(StandardUHPC), 774000)
       /\ Last.ret.compressive_strength = RawCompressive(StandardUHPC)

\* C3 amended: for 'Standard UHPC' the engine returns a compressive
\* strength within 1% of 94.3 MPa, baseStrength = 40 x (440/160)^0.7 is
\* about 81.2 (within 1%), and the result is left unclamped.
C3_StandardUHPC ==
    (CalledPrimary /\ Last.args = StandardUHPC)
    => /\ WithinOnePercent(Last.ret.compressive_strength, 943000)
       /\ WithinOnePercent(BaseStrength(StandardUHPC), 812000)
       /\ Last.ret.compressive_strength = RawCompressive(StandardUHPC)
       /\ 10 * SCALE < Last.ret.compressive_strength
       /\ Last.ret.compressive_strength < 120 * SCALE

\* The reference scenario has been computed.
C3_Witness ==
    /\ CalledPrimary /\ Last.args = StandardUHPC
    /\ Last.ret.status = "ok"

\* C4: two calls of the same function with identical arguments return
\* identical values, whatever calls were made before or between them.
C4_Deterministic ==
    \A i, j \in DOMAIN log :
        (log[i].fn = log[j].fn /\ log[i].args = log[j].args)
        => log[i].ret = log[j].ret

\* The same arguments were passed twice to the cached engine, with a call
\* for another age of the same mix, returning another value, in between.
C4_Witness ==
    /\ \E i, j, k \in DOMAIN log :
        /\ i < k /\ k < j
        /\ log[i].fn = FnPrimary /\ log[j] = log[i]
        /\ log[k].fn = FnPrimary
        /\ log[k].args # log[i].args
        /\ log[k].args = [log[i].args EXCEPT !.age = log[k].args.age]
        /\ log[k].ret # log[i].ret

\* The pre-clamp product without age_factor:
\* base_strength * slag_factor * fly_ash_factor * silica_fume_factor *
\* (1 + superplast/100).
ProductWithoutAge(a) ==
    Mul(Mul(Mul(Mul(BaseStrength(a), SlagFactor(a)), FlyAshFactor(a)),
            SilicaFumeFactor(a)), SuperplastFactor(a))

\* C5: for every non-degenerate mix called at age 28, ageFactor is 1 and
\* the pre-clamp compressive strength is baseStrength x slagFactor x
\* flyAshFactor x silicaFumeFactor x (1 + superplast/100); the returned
\* strength is that product clamped.
C5_AgeAnchor ==
    (CalledPrimary /\ ~Degenerate(Last.args) /\ Last.args.age = 28)
    => /\ AgeFactor(Last.args.age) = SCALE
       /\ RawCompressive(Last.args) = ProductWithoutAge(Last.args)
       /\ Last.ret.compressive_strength =
              Clamp(10 * SCALE, 120 * SCALE, ProductWithoutAge(Last.args))

\* A 28-day call of a mix with slag, fly ash, silica fume and
\* superplasticizer whose strength is left unclamped.
C5_Witness ==
    /\ CalledPrimary /\ ~Degenerate(Last.args) /\ Last.args.age = 28
    /\ Last.args.slag > 0 /\ Last.args.fly_ash > 0
    /\ Last.args.silica_fume > 0 /\ Last.args.superplast > 0
    /\ Last.ret.compressive_strength = ProductWithoutAge(Last.args)
    /\ Last.ret.compressive_strength < 120 * SCALE

\* C6: for every non-degenerate mix called at an age a of 1..28 and every
\* later age b of 1..28, the pre-clamp compressive strength at a is
\* strictly less than at b.
C6_MonotoneInAge ==
    (/\ CalledPrimary /\ ~Degenerate(Last.args)
     /\ Last.args.age \in 1 .. 28)
    => \A b \in 1 .. 28 :
          Last.args.age < b
          => RawCompressive(Last.args)
                 < RawCompressive([Last.args EXCEPT !.age = b])

\* A call at age 27 of a lean mix whose strength at ages 27 and 28 is below
\* the lower clamp: the returned values agree, the pre-clamp values differ.
C6_Witness ==
    /\ CalledPrimary /\ ~Degenerate(Last.args)
    /\ Last.args.age = 27
    /\ RawCompressive(Last.args)
           < RawCompressive([Last.args EXCEPT !.age = 28])
    /\ RawCompressive([Last.args EXCEPT !.age = 28]) < 10 * SCALE
    /\ Last.ret.compressive_strength = 10 * SCALE

\* C7: a call of the binder-factor model with water > 0, cement > 0, the
\* other quantities >= 0 and age >= 0 raises nothing: it returns a number
\* in each of its five fields.
C7_NeverFails ==
    (/\ CalledPrimary /\ ~Degenerate(Last.args)
     /\ NonNegative(Last.args) /\ Last.args.age >= 0)
    => /\ Last.ret.status = "ok"
       /\ Last.ret.compressive_strength \in Int
       /\ Last.ret.tensile_strength \in Int
       /\ Last.ret.elastic_modulus \in Int
       /\ Last.ret.upv \in Int
       /\ Last.ret.cost \in Int

\* A non-degenerate call at age 0 with no slag, fly ash, silica fume,
\* superplasticizer or aggregate: every quotient has a zero numerator.
C7_Witness ==
    /\ CalledPrimary /\ ~Degenerate(Last.args)
    /\ Last.args.age = 0
    /\ Last.args.slag = 0 /\ Last.args.fly_ash = 0
    /\ Last.args.silica_fume = 0 /\ Last.args.superplast = 0
    /\ Last.args.coarse_agg = 0 /\ Last.args.fine_agg = 0
    /\ Last.ret.status = "ok"

\* The value each variant's body returns for the arguments of call r with
\* the age replaced by g.
BodyAtAge(r, g) ==
    IF r.fn = FnPrimary THEN PredictBody([r.args EXCEPT !.age = g])
    ELSE AltPredictBody([r.args EXCEPT !.age = g])

\* C8 as stated: a call of either variant with age <= 0 is rejected, or it
\* returns exactly what the variant returns for age = 1 with the same mix.
\* (No outcome of either function is a rejection: the binder-factor model
\* raises only ZeroDivisionError, from a quotient.)
C8_AsStated ==
    (Called /\ Last.args.age <= 0)
    => \/ Last.ret.status = "rejected"
       \/ Last.ret = BodyAtAge(Last, 1)

\* C8 amended: a call with age <= 0 is not rejected and age 1 is not
\* substituted.  The binder-factor model uses ageFactor = 1 and returns
\* exactly what it returns for age = 28 with the same mix.  The
\* linear-coefficient model evaluates 5 ln(age + 1) as written: at age 0
\* the term is 0, so the unrounded compressive strength is 5 ln 2 below the
\* one for age 1; at age <= -1 the term is not finite (-inf at -1, nan
\* below), the four fields derived from it are not numbers, and cost is
\* the cost of the mix.
C8_InvalidAge ==
    (Called /\ Last.args.age <= 0)
    => /\ Last.ret.status # "rejected"
       /\ Last.fn = FnPrimary => Last.ret = BodyAtAge(Last, 28)
       /\ (Last.fn = FnAlt /\ Last.args.age = 0)
          => /\ Last.ret.status = "ok"
             /\ Last.ret.compressive_strength =
                    Round2(AltCompStrength([Last.args EXCEPT !.age = 1])
                           - 5 * Log(2))
       /\ (Last.fn = FnAlt /\ Last.args.age < 0)
          => /\ Last.ret.status =
                    (IF Last.args.age = -1 THEN "-inf" ELSE "nan")
             /\ Last.ret.cost = Round2(AltCost(Last.args))

\* A call of the binder-factor model at age 0 that returns the 28-day
\* estimate, which differs from the 1-day estimate of the same mix.
C8_Witness ==
    /\ CalledPrimary /\ Last.args.age = 0
    /\ Last.ret.status = "ok"
    /\ Last.ret = BodyAtAge(Last, 28)
    /\ Last.ret.compressive_strength
           > BodyAtAge(Last, 1).compressive_strength

\* C9: for all non-negative inputs, the five fields returned by the
\* binder-factor model and the five fields returned by the
\* linear-coefficient model are >= 0.
C9_NonNegativeFields ==
    (\/ CalledPrimary /\ NonNegative(Last.args) /\ Last.args.age >= 0
     \/ CalledAlt /\ AltNonNegative(Last.args))
    => /\ Last.ret.status = "ok"
       /\ Last.ret.compressive_strength >= 0
       /\ Last.ret.tensile_strength >= 0
       /\ Last.ret.elastic_modulus >= 0
       /\ Last.ret.upv >= 0
       /\ Last.ret.cost >= 0

\* C10: every call of the cached engine returns the value the function
\* body computes for that call's own arguments, after any sequence of
\* repeated and distinct calls.
C10_MemoizationTransparent ==
    \A i \in DOMAIN log :
        log[i].fn = FnPrimary => log[i].ret = PredictBody(log[i].args)

\* The last call was a cache hit (its arguments had been passed before),
\* and the entry of another age of the same mix, holding another value,
\* was in the cache.
C10_Witness ==
    /\ Len(log) = 3
    /\ log[3].fn = FnPrimary
    /\ \E i, k \in 1 .. 2 :
        /\ i # k
        /\ log[i].fn = FnPrimary /\ log[i].args = log[3].args
        /\ log[k].fn = FnPrimary
        /\ MakeKey(log[k].args) \in DOMAIN cache
        /\ log[k].args # log[3].args
        /\ [log[k].args EXCEPT !.age = 0] = [log[3].args EXCEPT !.age = 0]
        /\ cache[MakeKey(log[k].args)] # log[3].ret

\* The value a solitary call of caller t's function returns for its
\* arguments.
Solitary(t) ==
    IF threads[t].fn = FnPrimary THEN PredictBody(threads[t].args)
    ELSE AltPredictBody(threads[t].args)

\* C11 as stated: under every interleaving each caller receives the result
\* of a solitary call with its own inputs, and no call reads or writes a
\* resource shared with another call: no call writes the store, and none
\* is answered from an entry another call wrote.
C11_AsStated ==
    \A t \in Callers :
        /\ threads[t].pc = "done" => threads[t].ret = Solitary(t)
        /\ ~threads[t].wrote
        /\ ~threads[t].hit

\* C11 amended: under every interleaving each caller receives the result of
\* a solitary call with its own inputs.  Calls of the linear-coefficient
\* model read and write nothing shared; calls of the cached engine share
\* the st.cache_data store, which a call reads under its own argument
\* tuple and, on a miss, writes with the value computed for that tuple.
C11_ConcurrentCallsIndependent ==
    /\ \A t \in Callers :
        /\ threads[t].pc = "done" => threads[t].ret = Solitary(t)
        /\ threads[t].fn = FnAlt => ~threads[t].wrote /\ ~threads[t].hit
        /\ threads[t].wrote =>
              /\ MakeKey(threads[t].args) \in DOMAIN cache
              /\ cache[MakeKey(threads[t].args)] = Solitary(t)
    /\ \A k \in DOMAIN cache : cache[k] = PredictBody(k)

\* Two callers passed different ages of one mix; both missed, both wrote,
\* and each received its own value.
C11_Witness ==
    \E t, u \in Callers :
        /\ t # u
        /\ threads[t].pc = "done" /\ threads[u].pc = "done"
        /\ threads[t].wrote /\ threads[u].wrote
        /\ threads[t].args # threads[u].args
        /\ [threads[t].args EXCEPT !.age = 0]
               = [threads[u].args EXCEPT !.age = 0]
        /\ threads[t].ret # threads[u].ret

\* The value the body of call i's function computes for call i's arguments.
BodyOf(i) ==
    IF log[i].fn = FnPrimary THEN PredictBody(log[i].args)
    ELSE AltPredictBody(log[i].args)

\* C12 as stated: a prediction call changes no state outside its own return
\* value: the converter's fields stay as constructed, nothing else that
\* outlives the call is written, and every call returns the freshly built
\* estimate whatever callers did to the estimates they hold.
C12_AsStated ==
    /\ converter = NewConverter
    /\ cache = <<>>
    /\ \A i \in 1 .. Len(log) : log[i].ret = BodyOf(i)

\* C12 amended: the only state a prediction call changes outside its own
\* return value is the st.cache_data store of the primary variant, to which
\* a miss adds the estimate of its argument tuple.  The converter's
\* html_content and charts stay as constructed, and every call returns the
\* estimate its body builds, also after a caller mutated the estimate an
\* earlier call with the same arguments returned.
C12_CallsChangeOnlyTheStore ==
    /\ converter = NewConverter
    /\ \A k \in DOMAIN cache : cache[k] = PredictBody(k)
    /\ \A i \in 1 .. Len(log) :
          /\ log[i].ret = BodyOf(i)
          /\ log[i].fn = FnPrimary /\ log[i].ret.status = "ok"
                => MakeKey(log[i].args) \in DOMAIN cache
          /\ held[i] # log[i].ret
                => held[i] = [log[i].ret EXCEPT !.compressive_strength = 0]

\* A caller zeroed the strength of the estimate it received, and a later
\* call with the same arguments, answered from the store, returned the full
\* estimate; a call of the converter's method was made as well.
C12_Witness ==
    /\ \E i, j \in 1 .. Len(log) :
          /\ i < j
          /\ log[i].fn = FnPrimary /\ log[j].fn = FnPrimary
          /\ log[i].args = log[j].args
          /\ held[i].compressive_strength = 0
          /\ log[j].ret.compressive_strength > 0
          /\ held[j] = log[j].ret
    /\ \E n \in 1 .. Len(log) : log[n].fn = FnAlt

\* The validation helper has finished.
Validated == validation.pc = "done"

\* 100 * exp(0.2 * (1 - sqrt(28/age))) at some ages, to two decimals, in
\* hundredths of a percent.
EurocodeReference ==
    [age \in {3, 4, 7, 14, 28, 56, 90} |->
        CASE age = 3 -> 6630 [] age = 4 -> 7195 [] age = 7 -> 8187
          [] age = 14 -> 9205 [] age = 28 -> 10000 [] age = 56 -> 10603
          [] age = 90 -> 10925]

\* |p - r| <= 0.05 percentage points, p at SCALE, r in hundredths.
NearPercent(p, r) ==
    /\ p >= (r - 5) * (SCALE \div 100)
    /\ p <= (r + 5) * (SCALE \div 100)

\* C13: the Eurocode percentage is exactly 50 for every age < 3 (ages 1
\* and 2), and for every age >= 3 it is 100 * exp(0.2 * (1 - sqrt(28/age))):
\* 66.30 at age 3 (not the fallback), exactly 100 at age 28, strictly
\* increasing in between and beyond, and equal to the formula's value at
\* the reference ages.
C13_EurocodeCurve ==
    Validated =>
        \A i \in DOMAIN validation.ages :
            LET age == validation.ages[i]
                p == validation.eurocode_percentages[i]
            IN  /\ age < 3 => p = 50 * SCALE
                /\ age >= 3 /\ age \in DOMAIN EurocodeReference
                      => NearPercent(p, EurocodeReference[age])
                /\ age = 28 => p = 100 * SCALE
                /\ age > 3 => p > validation.eurocode_percentages[i - 1]
                /\ age >= 3 => (p < 100 * SCALE <=> age < 28)

\* The helper has run: the entries for ages 2 and 3 are the fallback and
\* the formula's value.
C13_Witness ==
    /\ Validated
    /\ validation.ages[2] = 2 /\ validation.ages[3] = 3
    /\ validation.eurocode_percentages[2] = 50 * SCALE
    /\ validation.eurocode_percentages[3] > 66 * SCALE
    /\ validation.eurocode_percentages[3] < 67 * SCALE

\* C14: the validation helper produces three parallel sequences over the
\* ages 1..90: the own-model, ACI and Eurocode sequences have one entry per
\* age, entry i of each belongs to age i (counting from 1), and the ACI
\* entry p of an age satisfies p * (4.0 + 0.85 * age) = 100 * age, to the
\* last digit kept.
C14_ParallelSequences ==
    Validated =>
        /\ Len(validation.ages) = 90
        /\ Len(validation.our_percentages) = Len(validation.ages)
        /\ Len(validation.aci_percentages) = Len(validation.ages)
        /\ Len(validation.eurocode_percentages) = Len(validation.ages)
        /\ \A i \in DOMAIN validation.ages :
              LET aci == validation.aci_percentages[i] \div 100
              IN  /\ validation.ages[i] = i
                  /\ log[i].args = WithAge(validation.mix, i)
                  /\ validation.our_predictions[i]
                        = log[i].ret.compressive_strength
                  /\ validation.our_percentages[i]
                        = OwnPercent(log[i].ret.compressive_strength,
                                     validation.strength_28)
                  /\ validation.eurocode_percentages[i] = 50 * SCALE
                        <=> i < 3
                  /\ aci * (400 + 85 * i) <= 100 * SCALE * i
                  /\ (aci + 1) * (400 + 85 * i) > 100 * SCALE * i

\* The helper has run: 90 entries each, and the ACI entry of age 28 is
\* 100 * 28 / 27.8 = 100.72.
C14_Witness ==
    /\ Validated
    /\ Len(validation.aci_percentages) = 90
    /\ NearPercent(validation.aci_percentages[28], 10072)
    /\ NearPercent(validation.aci_percentages[1], 2062)

\* C15: the own-model percentage at each age is
\* 100 * compressive_strength(age) / compressive_strength(28) on the clamped
\* strengths the engine returned; it is exactly 100 at age 28, and the
\* divisor is at least 10 for every validation mix.
C15_NormalizedByClamped28 ==
    Validated =>
        /\ validation.strength_28
              = CompressiveStrength(WithAge(validation.mix, 28))
        /\ validation.strength_28 >= 10 * SCALE
        /\ validation.our_percentages[28] = 100 * SCALE
        /\ \A i \in DOMAIN validation.our_percentages :
              LET s == CompressiveStrength(WithAge(validation.mix, i))
                  back == Mul(validation.strength_28,
                              validation.our_percentages[i] \div 100)
              IN  /\ Within(s, 10, 120)
                  /\ back <= s
                  /\ back >= s - 121

\* The helper has run on a mix whose strength at age 1 is raised to the
\* lower clamp and whose 28-day strength is below the upper clamp: the
\* entry of age 1 is 100 * 10 / strength_28.
C15_Witness ==
    /\ Validated
    /\ RawCompressive(WithAge(validation.mix, 1)) < 10 * SCALE
    /\ validation.strength_28 < 120 * SCALE
    /\ validation.our_percentages[1]
          = Ratio(10 * SCALE, validation.strength_28) * 100
    /\ validation.our_percentages[28] = 100 * SCALE

\* cement*0.12 + slag*0.08 + flyAsh*0.06 + silicaFume*0.8 +
\* coarseAggregate*0.02 + fineAggregate*0.015 + superplasticizer*2.0 +
\* water*0.001, in thousandths of a currency unit.
StatedCostInThousandths(a) ==
    a.cement * 120 + a.slag * 80 + a.fly_ash * 60 + a.silica_fume * 800
    + a.coarse_agg * 20 + a.fine_agg * 15 + a.superplast * 2000 + a.water

\* C16: for every non-degenerate input (water > 0 and cement > 0) the call
\* returns cost = cement*0.12 + slag*0.08 + flyAsh*0.06 + silicaFume*0.8 +
\* coarseAggregate*0.02 + fineAggregate*0.015 + superplasticizer*2.0 +
\* water*0.001, with no clamp, and the same cost at every other age.
C16_CostFormula ==
    (CalledPrimary /\ ~Degenerate(Last.args)) =>
        /\ Last.ret.status = "ok"
        /\ Last.ret.cost
              = StatedCostInThousandths(Last.args) * (SCALE \div KILO)
        /\ \A g \in {-1, 0, 1, 28, 365} :
              BodyAtAge(Last, g).cost = Last.ret.cost

\* A mix far outside the sliders was evaluated: its strength is clamped
\* at 120 while its cost, 311.27, is as summed.
C16_Witness ==
    /\ CalledPrimary
    /\ Last.args.cement = 1000 /\ Last.args.water = 20
    /\ Last.args.silica_fume = 150 /\ Last.args.superplast = 20
    /\ Last.args.coarse_agg = 1000 /\ Last.args.fine_agg = 750
    /\ Last.ret.compressive_strength = 120 * SCALE
    /\ Last.ret.cost = 311 * SCALE + 2700

\* The call returned an estimate of a mix with water > 0 and cement > 0.
NonDegenerateCall ==
    CalledPrimary /\ ~Degenerate(Last.args) /\ Last.ret.status = "ok"

\* Other mixes with the silica fume and aggregates of a: more slag, more
\* cement, more superplasticizer.
Variants(a) ==
    {[a EXCEPT !.slag = @ + 100], [a EXCEPT !.cement = @ + 100],
     [a EXCEPT !.superplast = @ + 5]}

\* C17: tensile_strength = clamp(compressive_strength * (0.08 + 0.07 *
\* silica_fume / 100), 1, 15) with the returned (clamped) compressive
\* strength and silica_fume in kg/m3 (to 0.0002 MPa); a mix with the same
\* silica_fume and the same clamped compressive strength but another total
\* binder has the same tensile strength.
C17_TensileFromRawSilicaFume ==
    NonDegenerateCall =>
        LET c == Last.ret.compressive_strength
            t == Last.ret.tensile_strength
            stated == Clamp(1 * SCALE, 15 * SCALE,
                            ((c \div 10)
                             * (800 + 7 * Last.args.silica_fume)) \div KILO)
        IN  /\ t - stated <= 2 /\ stated - t <= 2
            /\ \A v \in Variants(Last.args) :
                  (/\ TotalBinder(v) # TotalBinder(Last.args)
                   /\ PredictBody(v).compressive_strength = c)
                  => PredictBody(v).tensile_strength = t

\* A mix with silica fume whose strength is capped at 120 was evaluated,
\* the mix with 100 kg more slag is capped as well, and both have the
\* tensile strength 120 * (0.08 + 0.07 * 40 / 100) = 12.96, inside (1, 15).
C17_Witness ==
    /\ NonDegenerateCall
    /\ Last.args.silica_fume = 40
    /\ Last.ret.compressive_strength = 120 * SCALE
    /\ Last.ret.tensile_strength = 12 * SCALE + 9600
    /\ LET v == [Last.args EXCEPT !.slag = @ + 100]
       IN  /\ PredictBody(v).compressive_strength = 120 * SCALE
           /\ PredictBody(v).tensile_strength = 12 * SCALE + 9600

\* C18: tensile_strength, elastic_modulus and upv are computed from the
\* clamped compressive_strength that is returned; hence an input with the
\* same silica fume and aggregates and the same clamped compressive
\* strength has the same three values, whatever its strength before the
\* clamp.
C18_DerivedFromClamped ==
    NonDegenerateCall =>
        LET c == Last.ret.compressive_strength
            density_factor == DensityFactor(Last.args)
        IN  /\ Last.ret.tensile_strength
                  = TensileStrength(c, Last.args.silica_fume)
            /\ Last.ret.elastic_modulus = ElasticModulus(c, density_factor)
            /\ Last.ret.upv = Upv(c, density_factor)
            /\ \A v \in Variants(Last.args) :
                  PredictBody(v).compressive_strength = c
                  => /\ PredictBody(v).tensile_strength
                           = Last.ret.tensile_strength
                     /\ PredictBody(v).elastic_modulus
                           = Last.ret.elastic_modulus
                     /\ PredictBody(v).upv = Last.ret.upv

\* A mix whose strength before the clamp is above 120 was evaluated, the
\* mix with 100 kg more cement is still further above 120, and the three
\* derived values, none of them at a clamp, are the same for both.
C18_Witness ==
    /\ NonDegenerateCall
    /\ LET v == [Last.args EXCEPT !.cement = @ + 100]
       IN  /\ RawCompressive(Last.args) > 120 * SCALE
           /\ RawCompressive(v) > RawCompressive(Last.args)
           /\ PredictBody(v).tensile_strength = Last.ret.tensile_strength
           /\ PredictBody(v).elastic_modulus = Last.ret.elastic_modulus
           /\ PredictBody(v).upv = Last.ret.upv
    /\ Last.ret.tensile_strength < 15 * SCALE
    /\ Last.ret.elastic_modulus < 50000 * SCALE
    /\ Last.ret.upv < 5000 * SCALE

\* f = 1 + coeff * part / total_binder, to the last digits kept.
IsFactorOf(f, coeff, part, total_binder) ==
    /\ (f - SCALE) * total_binder <= coeff * part
    /\ (f - SCALE + 2) * total_binder > coeff * part

\* C19: whenever total_binder > 0 the factors are
\* 1 + 0.3 * slag / total_binder, 1 + 0.2 * fly_ash / total_binder and
\* 1 + 0.4 * silica_fume / total_binder, otherwise each is 1; for every call
\* with water > 0, cement > 0 and no negative quantity, total_binder >=
\* cement > 0, so the factors are the quotient forms and lie in [1, 1.3],
\* [1, 1.2] and [1, 1.4].
C19_BinderFactors ==
    /\ \A coeff \in {2000, 3000, 4000}, part \in {0, 50},
          total_binder \in {-100, 0} :
          BinderFactor(coeff, part, total_binder) = SCALE
    /\ (CalledPrimary /\ ~Degenerate(Last.args) /\ NonNegative(Last.args))
       => LET a == Last.args
              total_binder == TotalBinder(a)
          IN  /\ total_binder >= a.cement /\ a.cement > 0
              /\ IsFactorOf(SlagFactor(a), 3000, a.slag, total_binder)
              /\ IsFactorOf(FlyAshFactor(a), 2000, a.fly_ash, total_binder)
              /\ IsFactorOf(SilicaFumeFactor(a), 4000, a.silica_fume,
                            total_binder)
              /\ SlagFactor(a) >= SCALE /\ SlagFactor(a) <= 13000
              /\ FlyAshFactor(a) >= SCALE /\ FlyAshFactor(a) <= 12000
              /\ SilicaFumeFactor(a) >= SCALE
              /\ SilicaFumeFactor(a) <= 14000

\* A mix of 200 cement, 200 slag, 150 fly ash and 40 silica fume was
\* evaluated: the factors are 1.1016, 1.0508 and 1.0271.
C19_Witness ==
    /\ CalledPrimary /\ ~Degenerate(Last.args) /\ NonNegative(Last.args)
    /\ Last.args.cement = 200 /\ Last.args.slag = 200
    /\ Last.args.fly_ash = 150 /\ Last.args.silica_fume = 40
    /\ SlagFactor(Last.args) = 11016
    /\ FlyAshFactor(Last.args) = 10508
    /\ SilicaFumeFactor(Last.args) \in 10270 .. 10271

\* ln(age + 1) / ln(29) at some ages, to four decimals.
AgeFactorReference ==
    [age \in {1, 7, 27, 28, 90, 365} |->
        CASE age = 1 -> 2058 [] age = 7 -> 6175 [] age = 27 -> 9896
          [] age = 28 -> 10000 [] age = 90 -> 13396 [] age = 365 -> 17529]

\* C20: the age factor is ln(age + 1) / ln(29) for age > 0 (the reference
\* values to 0.0005, and f * ln(29) = ln(age + 1) to the last digit kept)
\* and exactly 1 for age <= 0; for every mix with water > 0 and cement > 0
\* the whole estimate returned for age 0 is the estimate returned for age
\* 28.
C20_AgeFactorDefault ==
    CalledPrimary =>
        LET age == Last.args.age
            f == AgeFactor(age)
        IN  /\ age <= 0 => f = SCALE
            /\ age > 0
               => /\ f * Log(29) <= Log(age + 1) * SCALE
                  /\ (f + 1) * Log(29) > Log(age + 1) * SCALE
            /\ age \in DOMAIN AgeFactorReference
               => /\ f >= AgeFactorReference[age] - 5
                  /\ f <= AgeFactorReference[age] + 5
            /\ (~Degenerate(Last.args) /\ age \in {0, 28})
               => /\ Last.ret.status = "ok"
                  /\ BodyAtAge(Last, 0) = Last.ret
                  /\ BodyAtAge(Last, 28) = Last.ret

\* The Standard UHPC preset was evaluated at age 0: the estimate is the
\* 28-day one, 94.3 MPa, not the 10 MPa an age factor of ln(1)/ln(29) = 0
\* would give.
C20_Witness ==
    /\ CalledPrimary
    /\ Last.args = [StandardUHPC EXCEPT !.age = 0]
    /\ Last.ret = PredictBody(StandardUHPC)
    /\ Within(Last.ret.compressive_strength, 94, 95)

\* The call of the linear-coefficient model returned numbers.
AltCallOk == CalledAlt /\ Last.ret.status = "ok"

\* 0.45*cement + 0.8*silicaFume + 15*superPlasticizer + 8*waterReducer +
\* 0.3*steelFibers - 0.2*water + 25, in hundredths of a MPa.
StatedAltLinearPart(b) ==
    45 * b.cement + 80 * b.silica_fume + 1500 * b.super_plasticizer
    + 800 * b.water_reducer + 30 * b.steel_fibers - 20 * b.water + 2500

\* 5 * ln(age + 1) at the ages of the inputs, to four decimals.
StatedAltLogTerm ==
    [age \in {0, 1, 28} |->
        CASE age = 0 -> 0 [] age = 1 -> 34657 [] age = 28 -> 168365]

\* C21: the linear-coefficient model returns compressive strength
\* 0.45*cement + 0.8*silicaFume + 15*superPlasticizer + 8*waterReducer +
\* 0.3*steelFibers - 0.2*water + 5*ln(age+1) + 25 (rounded to 0.01, so
\* within 0.0055 of it) whatever its size or sign, none of the derived
\* outputs is clipped either, and a different aggregate changes the cost
\* and nothing else.
C21_AltFormulaUnclamped ==
    AltCallOk =>
        LET b == Last.args
            c == Last.ret.compressive_strength
            stated == StatedAltLinearPart(b) * (SCALE \div 100)
                      + StatedAltLogTerm[b.age]
            other == AltPredictBody([b EXCEPT !.aggregate = @ + 100])
        IN  /\ c - stated <= 55 /\ stated - c <= 55
            /\ Last.ret.tensile_strength - (8 * (stated \div 100)
                  + 200 * b.steel_fibers + 2 * SCALE) \in -60 .. 60
            /\ Last.ret.elastic_modulus - (15 * (stated \div 100)
                  + 10 * b.steel_fibers + 25 * SCALE) \in -70 .. 70
            /\ Last.ret.upv - (stated \div 100 + b.steel_fibers + 38000)
                  \in -60 .. 60
            /\ other.compressive_strength = c
            /\ other.tensile_strength = Last.ret.tensile_strength
            /\ other.elastic_modulus = Last.ret.elastic_modulus
            /\ other.upv = Last.ret.upv
            /\ other.cost = Last.ret.cost + 5 * SCALE

\* generate_html_report's sample mix was evaluated: its strength is
\* 1025.84 MPa, far above any cap, and its elastic modulus 179.03.
C21_Witness ==
    /\ AltCallOk
    /\ Last.args = SampleValues
    /\ Last.ret.compressive_strength = 1025 * SCALE + 8400
    /\ Last.ret.elastic_modulus = 179 * SCALE + 300

\* The ranking has been produced.
Ranked == comparison.pc = "done"

\* The place of the mix called name among the candidates.
CandidateOf(name) ==
    CHOOSE i \in DOMAIN comparison.mixes : comparison.mixes[i].name = name

\* The compressive strength the engine returned for candidate i.
ReturnedStrength(i) == log[i].ret.compressive_strength

\* C22: the comparison view calls the engine exactly once per candidate
\* mix, all at the target age, and the ranking is a permutation of the
\* candidates in which no mix stands above a mix for which the engine
\* returned a higher compressive strength.
C22_RankedByReturnedStrength ==
    Ranked =>
        /\ Len(log) = Len(comparison.mixes)
        /\ \A i \in DOMAIN log :
              log[i].args = WithAge(comparison.mixes[i],
                                    comparison.target_age)
        /\ Len(comparison.sorted_results) = Len(comparison.mixes)
        /\ \A i \in DOMAIN comparison.mixes :
              \E r \in DOMAIN comparison.sorted_results :
                  comparison.sorted_results[r].name
                      = comparison.mixes[i].name
        /\ \A r, t \in DOMAIN comparison.sorted_results :
              r < t
              => ReturnedStrength(CandidateOf(
                     comparison.sorted_results[r].name))
                 >= ReturnedStrength(CandidateOf(
                        comparison.sorted_results[t].name))

\* x to the nearest tenth, in tenths.
Tenths(x) == (x + SCALE \div 20) \div (SCALE \div 10)

\* The candidate shown at rank r.
RankedCandidate(r) == CandidateOf(comparison.sorted_results[r].name)

\* C23: the ranking is sorted on the compressive strength rounded to one
\* decimal place, descending and stable: a mix stands above another only if
\* its rounded strength is at least the other's, and mixes whose strengths
\* round to the same value stand in their input order, whatever their
\* unrounded strengths.
C23_StableSortOnRounded ==
    Ranked =>
        \A r, t \in DOMAIN comparison.sorted_results :
            r < t
            => LET x == Tenths(ReturnedStrength(RankedCandidate(r)))
                   y == Tenths(ReturnedStrength(RankedCandidate(t)))
               IN  /\ comparison.sorted_results[r].compressive_strength
                         = x * (SCALE \div 10)
                   /\ comparison.sorted_results[t].compressive_strength
                         = y * (SCALE \div 10)
                   /\ x >= y
                   /\ x = y => RankedCandidate(r) < RankedCandidate(t)

\* A ranking in which two mixes show the same strength, the engine
\* returned less for the first of them than for the second, and the first
\* stands directly above the second.
C23_Witness ==
    /\ Ranked
    /\ \E r \in 1 .. Len(comparison.sorted_results) - 1 :
          /\ comparison.sorted_results[r].compressive_strength
                = comparison.sorted_results[r + 1].compressive_strength
          /\ RankedCandidate(r) < RankedCandidate(r + 1)
          /\ ReturnedStrength(RankedCandidate(r))
                < ReturnedStrength(RankedCandidate(r + 1))

\* C24: the entries of the age-development table are built in increasing
\* age order over the key ages <= max_age, max_age >= 28 makes the fifth
\* entry the one of age 28, the strength gain of the first five entries
\* (ages 1, 3, 7, 14, 28) is the constant 100, and the gain g of every
\* later entry satisfies g * strength(28) = 100 * strength(age), to the last
\* digits kept.
C24_StrengthGainAfter28 ==
    progression.pc = "loop" =>
        /\ progression.max_age >= 28
        /\ Len(progression.key_ages) >= 5
        /\ \A i \in DOMAIN progression.key_ages :
              /\ progression.key_ages[i] = KeyAges[i]
              /\ progression.key_ages[i] <= progression.max_age
        /\ Len(progression.key_ages) < Len(KeyAges)
              => KeyAges[Len(progression.key_ages) + 1] > progression.max_age
        /\ \A i \in DOMAIN progression.progression_data :
              LET row == progression.progression_data[i]
                  s == CompressiveStrength(WithAge(progression.mix,
                                                   KeyAges[i]))
                  s28 == CompressiveStrength(WithAge(progression.mix, 28))
                  back == Mul(s28, row.strength_gain \div 100)
              IN  /\ row.age = KeyAges[i]
                  /\ i > 1 => row.age > progression.progression_data[i - 1].age
                  /\ i = 5 => row.age = 28
                  /\ row.compressive_strength = s
                  /\ i <= 5 => row.strength_gain = 100 * SCALE
                  /\ i > 5 => back <= s /\ back >= s - 121

\* A table up to age 90 or beyond of a mix whose 1-day and 90-day
\* strengths differ from its 28-day strength: the gain is 100 at ages 1
\* and 28 and above 100 at ages 56 and 90.
C24_Witness ==
    /\ progression.pc = "loop"
    /\ Len(progression.progression_data) >= 7
    /\ progression.progression_data[1].compressive_strength
          < progression.progression_data[5].compressive_strength
    /\ progression.progression_data[1].strength_gain = 100 * SCALE
    /\ progression.progression_data[5].strength_gain = 100 * SCALE
    /\ progression.progression_data[6].strength_gain > 100 * SCALE
    /\ progression.progression_data[7].strength_gain
          > progression.progression_data[6].strength_gain

\* C25: for every mix with water > 0, cement > 0 and no negative quantity,
\* and all ages 1 <= a < b, the returned compressive strength at age a is
\* <= the one at age b, and so are the returned tensile strength, elastic
\* modulus and UPV.
C25_ClampedMonotoneInAge ==
    (/\ CalledPrimary /\ ~Degenerate(Last.args) /\ NonNegative(Last.args)
     /\ Last.args.age >= 1)
    => \A b \in {Last.args.age + 1, 28, 90, 365} :
          Last.args.age < b
          => LET later == BodyAtAge(Last, b)
             IN  /\ Last.ret.status = "ok" /\ later.status = "ok"
                 /\ Last.ret.compressive_strength
                       <= later.compressive_strength
                 /\ Last.ret.tensile_strength <= later.tensile_strength
                 /\ Last.ret.elastic_modulus <= later.elastic_modulus
                 /\ Last.ret.upv <= later.upv

\* A 7-day call of a mix whose 7-day and 28-day strengths lie inside the
\* clamps: all four quantities are larger at 28 days; at 365 days the
\* strength is capped at 120.
C25_Witness ==
    /\ CalledPrimary /\ ~Degenerate(Last.args) /\ NonNegative(Last.args)
    /\ Last.args.age = 7
    /\ Last.ret.compressive_strength > 10 * SCALE
    /\ Last.ret.compressive_strength
          < BodyAtAge(Last, 28).compressive_strength
    /\ Last.ret.tensile_strength < BodyAtAge(Last, 28).tensile_strength
    /\ Last.ret.elastic_modulus < BodyAtAge(Last, 28).elastic_modulus
    /\ Last.ret.upv < BodyAtAge(Last, 28).upv
    /\ BodyAtAge(Last, 28).compressive_strength < 120 * SCALE
    /\ BodyAtAge(Last, 365).compressive_strength = 120 * SCALE

\* The mix and age lie within the slider ranges of property_prediction_demo.
WithinSliders(a) ==
    /\ a.cement \in 200 .. 500 /\ a.slag \in 0 .. 200
    /\ a.fly_ash \in 0 .. 150 /\ a.silica_fume \in 0 .. 50
    /\ a.water \in 120 .. 250 /\ a.coarse_agg \in 800 .. 1200
    /\ a.fine_agg \in 600 .. 900 /\ a.superplast \in 0 .. 20
    /\ a.age \in 1 .. 365

\* 3800 + 15 * sqrt(10) = 3847.43..., to the resolution of SCALE.
UpvFloor == 3847 * SCALE + 4300

\* C26: the UPV lower clamp of 3000 is never active: for every input with
\* water > 0, cement > 0 and non-negative aggregates the UPV before the
\* clamp is at least 3800 + 15 * sqrt(10) > 3000 (the returned UPV, which
\* is the clamped one, is at least that); within the slider ranges no UPV
\* clamp is active, the UPV lies strictly between 4000 and 4500 and the
\* quality shown is 'Good'.
C26_UpvLowerClampInactive ==
    (CalledPrimary /\ ~Degenerate(Last.args))
    => /\ (Last.args.coarse_agg >= 0 /\ Last.args.fine_agg >= 0)
          => /\ Last.ret.status = "ok"
             /\ Last.ret.upv >= UpvFloor
             /\ UpvFloor > 3000 * SCALE
       /\ WithinSliders(Last.args)
          => /\ Last.ret.upv > 4000 * SCALE
             /\ Last.ret.upv < 4500 * SCALE
             /\ UpvQuality(Last.ret.upv) = "Good"

\* The slider corner with the lowest UPV: strength at the lower clamp and
\* the least aggregate, 3800 + 47.4 + 155.6, just above 4000.
C26_Witness ==
    /\ CalledPrimary /\ WithinSliders(Last.args)
    /\ Last.args.coarse_agg = 800 /\ Last.args.fine_agg = 600
    /\ Last.ret.compressive_strength = 10 * SCALE
    /\ Last.ret.upv \in 4002 * SCALE .. 4004 * SCALE
    /\ UpvQuality(Last.ret.upv) = "Good"

\* C27: within the slider ranges (silica fume 0..50) the tensile upper
\* clamp of 15 is never active and the returned tensile strength is between
\* 8% and 11.5% of the returned compressive strength (8% to the resolution
\* of SCALE), except where the lower clamp of 1 is active, and there it is
\* at most 10% of it.
C27_TensileShareOfCompressive ==
    (CalledPrimary /\ WithinSliders(Last.args))
    => LET c == Last.ret.compressive_strength
           t == Last.ret.tensile_strength
           unclamped == TensileStrengthUnclamped(c, Last.args.silica_fume)
       IN  /\ Last.ret.status = "ok"
           /\ unclamped < 15 * SCALE
           /\ t < 15 * SCALE
           /\ IF unclamped < 1 * SCALE
              THEN t = 1 * SCALE /\ 10 * t <= c
              ELSE 1000 * (t + 1) >= 80 * c /\ 1000 * t <= 115 * c

\* The slider corner with the largest tensile strength: 50 kg of silica
\* fume and the strength at its cap, 0.115 * 120 = 13.8 < 15.
C27_Witness ==
    /\ CalledPrimary /\ WithinSliders(Last.args)
    /\ Last.args.silica_fume = 50
    /\ Last.ret.compressive_strength = 120 * SCALE
    /\ Last.ret.tensile_strength = 13 * SCALE + 8000

\* Some ratio of PredictionMetrics divides by zero.
DividesByZero(metrics) ==
    ZeroDivisionError \in {metrics.tensile_ratio, metrics.e_fc,
                           metrics.wc_ratio, metrics.strength_cost}

\* C28: for every input with water > 0, cement > 0 and no negative quantity
\* the returned cost is > 0 (cost >= 0.12 * cement + 0.001 * water > 0) and
\* the returned compressive strength is >= 10, so tensile/compressive,
\* elastic modulus/compressive, compressive/cost and water/cement never
\* divide by zero; for a non-negative input a ratio divides by zero only
\* when the estimate is the all-zero one of a degenerate input.
C28_RatiosNeverDivideByZero ==
    (CalledPrimary /\ NonNegative(Last.args))
    => LET a == Last.args
           metrics == PredictionMetrics(a, Last.ret)
       IN  /\ ~Degenerate(a)
              => /\ Last.ret.status = "ok"
                 /\ Last.ret.cost > 0
                 /\ Last.ret.cost >= 1200 * a.cement + 10 * a.water
                 /\ 1200 * a.cement + 10 * a.water > 0
                 /\ Last.ret.compressive_strength >= 10 * SCALE
                 /\ ~DividesByZero(metrics)
                 /\ metrics.tensile_ratio > 0 /\ metrics.e_fc > 0
                 /\ metrics.wc_ratio > 0 /\ metrics.strength_cost > 0
           /\ (Last.ret.status = "ok" /\ DividesByZero(metrics))
              => Degenerate(a) /\ Last.ret = ZeroEstimate

\* The cheapest mix of the model (1 kg of cement, 20 kg of water, nothing
\* else): cost exactly 0.12 + 0.02, strength at the lower clamp, and the
\* four ratios are computed.
C28_Witness ==
    /\ CalledPrimary /\ NonNegative(Last.args) /\ ~Degenerate(Last.args)
    /\ Last.args.cement = 1 /\ Last.args.water = 20
    /\ Last.ret.cost = 1400
    /\ Last.ret.compressive_strength = 10 * SCALE
    /\ ~DividesByZero(PredictionMetrics(Last.args, Last.ret))
    /\ PredictionMetrics(Last.args, Last.ret).wc_ratio = 20 * SCALE

\* The alternate variant's compressive strength before rounding, to four
\* decimals, from the stated coefficients.
StatedAltStrength(b) ==
    StatedAltLinearPart(b) * (SCALE \div 100) + StatedAltLogTerm[b.age]

\* C29: the linear-coefficient model returns every field rounded to two
\* decimals, and derives tensile strength, elastic modulus and UPV from
\* the compressive strength before it is rounded: the returned tensile
\* strength is round(0.08*c + 0.02*steelFibers + 2, 2) for the unrounded c.
\* (Right-hand sides in millionths: 100 * the field at SCALE.)
C29_RoundedOnceAtReturn ==
    AltCallOk =>
        LET b == Last.args
            c == StatedAltStrength(b)
        IN  /\ \A f \in {"compressive_strength", "tensile_strength",
                         "elastic_modulus", "upv", "cost"} :
                   Last.ret[f] % (SCALE \div 100) = 0
            /\ Last.ret.compressive_strength = RoundTo(c, SCALE \div 100)
            /\ 100 * Last.ret.tensile_strength
                   = RoundTo(8 * c + 100 * (200 * b.steel_fibers + 2 * SCALE),
                             FINE \div 100)
            /\ 100 * Last.ret.elastic_modulus
                   = RoundTo(15 * c
                             + 100 * (25 * SCALE + 10 * b.steel_fibers),
                             FINE \div 100)
            /\ 100 * Last.ret.upv
                   = RoundTo(c + 100 * (38000 + b.steel_fibers),
                             FINE \div 100)

\* 3 kg of cement at 28 days: c = 43.18648, so the tensile strength is
\* round(5.45492, 2) = 5.45, while round(c, 2) = 43.19 would have given
\* round(5.4552, 2) = 5.46.
C29_Witness ==
    /\ AltCallOk
    /\ Last.args.cement = 3 /\ Last.args.age = 28
    /\ Last.args.steel_fibers = 0 /\ Last.args.water = 0
    /\ Last.ret.compressive_strength = 43 * SCALE + 1900
    /\ Last.ret.tensile_strength = 5 * SCALE + 4500
    /\ RoundTo(8 * Last.ret.compressive_strength + 100 * 2 * SCALE,
               FINE \div 100) = 100 * (5 * SCALE + 4600)
====
